---- MODULE Spec2Model ----
(***************************************************************************)
(* A model of app.py: the paginated auction fetch with retries             *)
(* (AuctionService.get_auction_items), the time-gated cache and the name   *)
(* filters (ArmorFilterService), the lore parser                           *)
(* (extract_attributes_from_lore), the periodic refresh timer and the      *)
(* /filtered_items handler.                                                *)
(*                                                                         *)
(* Python strings are sequences of one-character strings, so that          *)
(* substring tests, str.lower() and the regular expressions are computed   *)
(* character by character.                                                 *)
(***************************************************************************)
EXTENDS Integers, Sequences, FiniteSets, TLC

\* ------------------------------------------------------------------------
\* Characters and strings
\* ------------------------------------------------------------------------

\* The section sign U+00A7 that starts a decoration code.
SectionSign == "#"

\* The newline character.
NL == "\n"

UpperLetters == <<"A", "B", "C", "D", "E", "F", "G", "H", "I", "J", "K", "L", "M", "N", "O", "P", "Q", "R", "S", "T", "U", "V", "W", "X", "Y", "Z">>

LowerLetters == <<"a", "b", "c", "d", "e", "f", "g", "h", "i", "j", "k", "l", "m", "n", "o", "p", "q", "r", "s", "t", "u", "v", "w", "x", "y", "z">>

\* str.lower() on one character (ASCII letters).
LowerChar(c) ==
    IF \E i \in 1..Len(UpperLetters) : UpperLetters[i] = c
    THEN LowerLetters[CHOOSE i \in 1..Len(UpperLetters) : UpperLetters[i] = c]
    ELSE c

\* str.lower()
Lower(str) == [i \in 1..Len(str) |-> LowerChar(str[i])]

\* Whether word w occurs in str at position i (1-based).
OccursAt(str, i, w) ==
    /\ i >= 1
    /\ i + Len(w) - 1 <= Len(str)
    /\ SubSeq(str, i, i + Len(w) - 1) = w

\* Python's `w in str`.
Contains(str, w) == \E i \in 1..(Len(str) + 1) : OccursAt(str, i, w)

\* Python's None, for a display name that the payload gives as null.
None == <<"None">>

\* Truth value of `item.item_name` in a condition: None and '' are false.
Truthy(item_name) == item_name # None /\ item_name # <<>>

\* ------------------------------------------------------------------------
\* ArmorFilterService: vocabularies (class attributes)
\* ------------------------------------------------------------------------

valid_armor_attributes ==
    << <<"A", "r", "a", "c", "h", "n", "o", " ", "R", "e", "s", "i", "s", "t", "a", "n", "c", "e">>,
       <<"B", "l", "a", "z", "i", "n", "g", " ", "R", "e", "s", "i", "s", "t", "a", "n", "c", "e">>,
       <<"B", "r", "e", "e", "z", "e">>,
       <<"D", "o", "m", "i", "n", "a", "n", "c", "e">>,
       <<"E", "n", "d", "e", "r", " ", "R", "e", "s", "i", "s", "t", "a", "n", "c", "e">>,
       <<"E", "x", "p", "e", "r", "i", "e", "n", "c", "e">>,
       <<"F", "o", "r", "t", "i", "t", "u", "d", "e">>,
       <<"L", "i", "f", "e", " ", "R", "e", "g", "e", "n", "e", "r", "a", "t", "i", "o", "n">>,
       <<"L", "i", "f", "e", "l", "i", "n", "e">>,
       <<"M", "a", "g", "i", "c", " ", "F", "i", "n", "d">>,
       <<"M", "a", "n", "a", " ", "P", "o", "o", "l">>,
       <<"M", "a", "n", "a", " ", "R", "e", "g", "e", "n", "e", "r", "a", "t", "i", "o", "n">>,
       <<"V", "i", "t", "a", "l", "i", "t", "y">>,
       <<"S", "p", "e", "e", "d">>,
       <<"U", "n", "d", "e", "a", "d", " ", "R", "e", "s", "i", "s", "t", "a", "n", "c", "e">>,
       <<"V", "e", "t", "e", "r", "a", "n">> >>

valid_armor_names ==
    << <<"C", "r", "i", "m", "s", "o", "n">>,
       <<"A", "u", "r", "o", "r", "a">>,
       <<"T", "e", "r", "r", "o", "r">>,
       <<"H", "o", "l", "l", "o", "w">>,
       <<"F", "e", "r", "v", "o", "r">> >>

valid_armor_pieces ==
    << <<"H", "e", "l", "m", "e", "t">>,
       <<"C", "h", "e", "s", "t", "p", "l", "a", "t", "e">>,
       <<"L", "e", "g", "g", "i", "n", "g", "s">>,
       <<"B", "o", "o", "t", "s">> >>

valid_equipments ==
    << <<"M", "o", "l", "t", "e", "n", " ", "B", "e", "l", "t">>,
       <<"M", "o", "l", "t", "e", "n", " ", "B", "r", "a", "c", "e", "l", "e", "t">>,
       <<"M", "o", "l", "t", "e", "n", " ", "C", "l", "o", "a", "k">>,
       <<"M", "o", "l", "t", "e", "n", " ", "N", "e", "c", "k", "l", "a", "c", "e">> >>

\* The literal "Attribute Shard" of filter_items and of shard_regex.
AttributeShard == <<"A", "t", "t", "r", "i", "b", "u", "t", "e", " ", "S", "h", "a", "r", "d">>

\* The level 'N/A' given to a shard entry.
NotApplicable == <<"N", "/", "A">>

\* ------------------------------------------------------------------------
\* ArmorFilterService: name predicates
\* ------------------------------------------------------------------------

\* any(name.lower() in item_name.lower() for name in self.valid_armor_names)
matches_armor_name(item_name) ==
    \E k \in 1..Len(valid_armor_names) :
        Contains(Lower(item_name), Lower(valid_armor_names[k]))

\* any(piece.lower() in item_name.lower() for piece in self.valid_armor_pieces)
matches_armor_piece(item_name) ==
    \E k \in 1..Len(valid_armor_pieces) :
        Contains(Lower(item_name), Lower(valid_armor_pieces[k]))

\* any(equipment.lower() in item_name.lower() for equipment in self.valid_equipments)
matches_equipment_name(item_name) ==
    \E k \in 1..Len(valid_equipments) :
        Contains(Lower(item_name), Lower(valid_equipments[k]))

\* "Attribute Shard" in item.item_name  (no lower() on either side)
shard_in_name(item_name) == Contains(item_name, AttributeShard)

\* IsArmor with `or` between the two name tests.
IsArmorEitherWord(item) ==
    /\ Truthy(item.item_name)
    /\ \/ matches_armor_name(item.item_name)
       \/ matches_armor_piece(item.item_name)
    /\ item.bin_status = TRUE

\* The conditions of the three list comprehensions of filter_items.
IsArmor(item) ==
    /\ Truthy(item.item_name)
    /\ matches_armor_name(item.item_name)
    /\ matches_armor_piece(item.item_name)
    /\ item.bin_status = TRUE

IsEquipment(item) ==
    /\ Truthy(item.item_name)
    /\ matches_equipment_name(item.item_name)
    /\ item.bin_status = TRUE

IsShard(item) ==
    /\ Truthy(item.item_name)
    /\ shard_in_name(item.item_name)
    /\ item.bin_status = TRUE

\* ------------------------------------------------------------------------
\* ArmorFilterService.extract_attributes_from_lore
\* ------------------------------------------------------------------------

\* The character class [0-9a-fk-or] of the decoration codes.
CodeChars ==
    {"0", "1", "2", "3", "4", "5", "6", "7", "8", "9",
     "a", "b", "c", "d", "e", "f", "k", "l", "m", "n", "o", "r"}

\* The character class [IVXLCDM].
RomanChars == {"I", "V", "X", "L", "C", "D", "M"}

\* re.sub(r'<section sign>[0-9a-fk-or]', '', item_lore): one left-to-right
\* pass that drops every non-overlapping match.
RECURSIVE StripCodes(_)
StripCodes(str) ==
    IF str = <<>> THEN <<>>
    ELSE IF Len(str) >= 2 /\ str[1] = SectionSign /\ str[2] \in CodeChars
         THEN StripCodes(SubSeq(str, 3, Len(str)))
         ELSE <<str[1]>> \o StripCodes(Tail(str))

\* str.split('\n'): the pieces between newlines, an empty piece included.
RECURSIVE SplitLines(_)
SplitLines(str) ==
    IF \E i \in 1..Len(str) : str[i] = NL
    THEN LET i == CHOOSE j \in 1..Len(str) :
                      str[j] = NL /\ \A k \in 1..(j - 1) : str[k] # NL
         IN  <<SubSeq(str, 1, i - 1)>> \o SplitLines(SubSeq(str, i + 1, Len(str)))
    ELSE <<str>>

\* The length of the longest run of roman characters of line from position i:
\* what the greedy [IVXLCDM]+ consumes.
RECURSIVE RomanRun(_, _)
RomanRun(line, i) ==
    IF i <= Len(line) /\ line[i] \in RomanChars
    THEN 1 + RomanRun(line, i + 1)
    ELSE 0

\* Whether alternative k of the attribute list, a space and at least one roman
\* character stand at position i of line.
AlternativeAt(line, i, k) ==
    LET name == valid_armor_attributes[k]
    IN  /\ OccursAt(line, i, name \o <<" ">>)
        /\ RomanRun(line, i + Len(name) + 1) >= 1

\* attribute_regex anchored at position i: the alternatives are tried in list
\* order; 0 when none matches there.
MatchAt(line, i) ==
    IF \E k \in 1..Len(valid_armor_attributes) : AlternativeAt(line, i, k)
    THEN CHOOSE k \in 1..Len(valid_armor_attributes) :
             /\ AlternativeAt(line, i, k)
             /\ \A j \in 1..(k - 1) : ~AlternativeAt(line, i, j)
    ELSE 0

\* attribute_regex.search(line) from position i on: the start position of the
\* first match, 0 when there is none.
RECURSIVE SearchFrom(_, _)
SearchFrom(line, i) ==
    IF i > Len(line) THEN 0
    ELSE IF MatchAt(line, i) # 0 THEN i
    ELSE SearchFrom(line, i + 1)

\* LineEntries with the shard test in an elif.
LineEntriesElif(line) ==
    LET at == SearchFrom(line, 1)
        k == MatchAt(line, at)
        name == valid_armor_attributes[k]
        from == at + Len(name) + 1
        level == SubSeq(line, from, from + RomanRun(line, from) - 1)
    IN  IF at # 0 THEN <<[name |-> name, level |-> level]>>
        ELSE IF Contains(line, AttributeShard)
        THEN <<[name |-> AttributeShard, level |-> NotApplicable]>>
        ELSE <<>>

\* The loop body of extract_attributes_from_lore for one line: the entries it
\* appends.
LineEntries(line) ==
    LET at == SearchFrom(line, 1)
        k == MatchAt(line, at)
        name == valid_armor_attributes[k]
        from == at + Len(name) + 1
        level == SubSeq(line, from, from + RomanRun(line, from) - 1)
    IN  (IF at # 0 THEN <<[name |-> name, level |-> level]>> ELSE <<>>)
        \o (IF Contains(line, AttributeShard)
            THEN <<[name |-> AttributeShard, level |-> NotApplicable]>>
            ELSE <<>>)

\* for line in normalized_lore.split('\n'): ... from line k on.
RECURSIVE ExtractLines(_, _)
ExtractLines(lines, k) ==
    IF k > Len(lines) THEN <<>>
    ELSE LineEntries(lines[k]) \o ExtractLines(lines, k + 1)

extract_attributes_from_lore(item_lore) ==
    ExtractLines(SplitLines(StripCodes(item_lore)), 1)

\* ------------------------------------------------------------------------
\* Bounds of the model and constants of the program
\* ------------------------------------------------------------------------

\* The largest totalPages the upstream reports.
MaxPages == 2

\* The number of times the upstream listing changes its length.
MaxChanges == 1

\* The clock stops advancing at MaxTime.
MaxTime == 301

\* The longest snapshot SpecFilter starts from.
MaxSnapshotLen == 2

\* The largest number of lines of a lore text SpecLore starts from.
MaxLoreLines == 2

\* retry_attempts = 5
RetryBudget == 5

\* timedelta(minutes=5), in seconds
StaleAfter == 300

\* time.sleep(5): the backoff after a failed request, in seconds.
BackoffSeconds == 5

\* Timer(300, ...), in seconds
TimerInterval == 300

\* datetime.min: the clock counts seconds from the start of the process, and
\* datetime.min lies further back than any reading of it minus StaleAfter.
DatetimeMin == -2000000000

\* The periodic refresh (the first call runs on the main thread, the later ones
\* on Timer threads) and the threads that serve requests.
TimerThread == "timer"

Requests == {"r1"}

Threads == {TimerThread} \cup Requests

\* ArmorFilterService.__init__, as the writer of the first cached_items and
\* last_fetched.
Constructor == "init"

\* The clock is observed after 5 minutes or after 5 minutes and a second: both
\* sides of the staleness threshold.
TickSteps == {StaleAfter, StaleAfter + 1}

\* ------------------------------------------------------------------------
\* The upstream API
\* ------------------------------------------------------------------------

CatalogueNames ==
    << <<"C", "r", "i", "m", "s", "o", "n", " ", "H", "e", "l", "m", "e", "t">>,
       <<"M", "o", "l", "t", "e", "n", " ", "C", "l", "o", "a", "k">>,
       <<"A", "t", "t", "r", "i", "b", "u", "t", "e", " ", "S", "h", "a", "r", "d">> >>

CatalogueLores ==
    << <<"#", "a", "M", "a", "n", "a", " ", "P", "o", "o", "l", " ", "#", "6", "V">>,
       <<"S", "p", "e", "e", "d", " ", "I", "I", "\n", "#", "7", "A", "t", "t", "r", "i", "b", "u", "t", "e", " ", "S", "h", "a", "r", "d">> >>

\* The number of entries of page p.
PageSize(p) == 1 + (p % 2)

\* Entry k of page p, as AuctionItem(...) builds it from the payload: the fields
\* the filter and the handler read (category, tier, claimed and starting_bid
\* are carried along unread and are left out).
UpstreamEntry(p, k) ==
    [uuid |-> 10 * p + k,
     item_name |-> CatalogueNames[((p + k) % Len(CatalogueNames)) + 1],
     item_lore |-> CatalogueLores[((p + k) % Len(CatalogueLores)) + 1],
     bin_status |-> ((p + k) % 4 # 3)]

\* The body of a successful GET ...?page=p while the listing has total pages:
\* a page at or past the end holds no entry.
UpstreamResponse(p, total) ==
    [totalPages |-> total,
     auctions |-> IF p < total
                  THEN [k \in 1..PageSize(p) |-> UpstreamEntry(p, k)]
                  ELSE <<>>]

\* ------------------------------------------------------------------------
\* State
\* ------------------------------------------------------------------------

VARIABLES
    now,             \* datetime.now(), in seconds since the process started
    totalPages,      \* the upstream: the number of pages of the listing
    changes,         \* the upstream: how often the listing has changed
    last_fetched,    \* ArmorFilterService.last_fetched
    cached_items,    \* ArmorFilterService.cached_items
    itemsBy,         \* history: the thread whose refresh_data wrote cached_items
    stampBy,         \* history: the thread whose refresh_data wrote last_fetched
    pc,              \* where each thread stands
    booted,          \* the first refresh_data_periodically() has returned
    armedAt,         \* when the pending Timer was started
    pendingTimers,   \* the Timer objects started and not yet run
    page,            \* get_auction_items: page, per thread
    more_pages,      \* get_auction_items: more_pages, per thread
    retry_attempts,  \* get_auction_items: retry_attempts, per thread
    auction_items,   \* get_auction_items: auction_items, per thread
    slept,           \* history: the seconds a call has spent in time.sleep
    tps,             \* history: the totalPages values a call was told
    inFlight,        \* history: the threads with a fetch under way or a result
                     \* not yet stored, in the order their calls started
    overtaken,       \* history: the threads of inFlight whose call started
                     \* before the call that produced cached_items
    armors,          \* filter_items: armors, per request
    equipments,      \* filter_items: equipments, per request
    shards,          \* filter_items: shards, per request
    seen,            \* history: the values of cached_items a call has read
    response,        \* the HTTP response of each request
    lore,            \* extract_attributes_from_lore: item_lore
    attributes,      \* extract_attributes_from_lore: the returned list
    lorePc           \* extract_attributes_from_lore: not called / called / returned

vars ==
    <<now, totalPages, changes, last_fetched, cached_items, itemsBy, stampBy, pc,
      booted, armedAt, pendingTimers, page,
      more_pages, retry_attempts, auction_items, slept, tps, inFlight, overtaken,
      armors, equipments,
      shards, seen, response, lore, attributes, lorePc>>

upstreamVars == <<totalPages, changes>>

cacheVars == <<last_fetched, cached_items, itemsBy, stampBy>>

localVars == <<page, more_pages, retry_attempts, auction_items, slept, tps>>

callVars == <<inFlight, overtaken>>

fetchVars == <<localVars, callVars>>

filterVars == <<armors, equipments, shards, seen>>

loreVars == <<lore, attributes, lorePc>>

NoResponse == [status |-> 0, body |-> <<>>]

\* ArmorFilterService.__init__ and the module-level construction: the state
\* right before refresh_data_periodically() is called for the first time.
Init ==
    /\ now = 0
    /\ totalPages \in 0..MaxPages
    /\ changes = 0
    /\ last_fetched = DatetimeMin
    /\ cached_items = <<>>
    /\ itemsBy = Constructor
    /\ stampBy = Constructor
    /\ pc = [t \in Threads |-> IF t = TimerThread THEN "call" ELSE "idle"]
    /\ booted = FALSE
    /\ armedAt = 0
    /\ pendingTimers = 0
    /\ page = [t \in Threads |-> 0]
    /\ more_pages = [t \in Threads |-> TRUE]
    /\ retry_attempts = [t \in Threads |-> RetryBudget]
    /\ auction_items = [t \in Threads |-> <<>>]
    /\ slept = [t \in Threads |-> 0]
    /\ tps = [t \in Threads |-> {}]
    /\ inFlight = <<>>
    /\ overtaken = {}
    /\ armors = [r \in Requests |-> <<>>]
    /\ equipments = [r \in Requests |-> <<>>]
    /\ shards = [r \in Requests |-> <<>>]
    /\ seen = [r \in Requests |-> <<>>]
    /\ response = [r \in Requests |-> NoResponse]
    /\ lore = <<>>
    /\ attributes = <<>>
    /\ lorePc = "off"

\* ------------------------------------------------------------------------
\* The environment: the clock and the upstream listing
\* ------------------------------------------------------------------------

Tick(d) ==
    /\ now + d <= MaxTime
    /\ now' = now + d
    /\ UNCHANGED <<upstreamVars, cacheVars, pc, booted, armedAt, pendingTimers, fetchVars,
                   filterVars, response, loreVars>>

\* The listing grows or shrinks to n pages.
UpstreamChange(n) ==
    /\ changes < MaxChanges
    /\ n # totalPages
    /\ totalPages' = n
    /\ changes' = changes + 1
    /\ UNCHANGED <<now, cacheVars, pc, booted, armedAt, pendingTimers, fetchVars, filterVars,
                   response, loreVars>>

\* ------------------------------------------------------------------------
\* AuctionService.get_auction_items, one loop iteration per step
\* ------------------------------------------------------------------------

\* The sequence seq without thread t.
Without(seq, t) == SelectSeq(seq, LAMBDA u : u # t)

\* The threads that stand before thread t in seq.
Before(seq, t) ==
    {seq[i] : i \in {i \in 1..Len(seq) : \E j \in (i + 1)..Len(seq) : seq[j] = t}}

\* Lines 26-29: the locals of a new call.
EnterFetch(t) ==
    /\ page' = [page EXCEPT ![t] = 0]
    /\ more_pages' = [more_pages EXCEPT ![t] = TRUE]
    /\ retry_attempts' = [retry_attempts EXCEPT ![t] = RetryBudget]
    /\ auction_items' = [auction_items EXCEPT ![t] = <<>>]
    /\ slept' = [slept EXCEPT ![t] = 0]
    /\ tps' = [tps EXCEPT ![t] = {}]
    /\ inFlight' = Append(Without(inFlight, t), t)
    /\ overtaken' = overtaken \ {t}

\* The frame of a call that has returned or raised is gone.
LeaveFetch(t) ==
    /\ page' = [page EXCEPT ![t] = 0]
    /\ more_pages' = [more_pages EXCEPT ![t] = TRUE]
    /\ retry_attempts' = [retry_attempts EXCEPT ![t] = RetryBudget]
    /\ auction_items' = [auction_items EXCEPT ![t] = <<>>]
    /\ slept' = [slept EXCEPT ![t] = 0]
    /\ tps' = [tps EXCEPT ![t] = {}]
    /\ inFlight' = Without(inFlight, t)
    /\ overtaken' = overtaken \ {t}

\* FetchPage with the loop going on while page + 1 <= total_pages.
FetchPageAsksOneMore(t) ==
    /\ pc[t] = "fetch"
    /\ LET data == UpstreamResponse(page[t], totalPages)
           total_pages == data.totalPages
       IN  /\ more_pages' = [more_pages EXCEPT ![t] = page[t] + 1 <= total_pages]
           /\ page' = [page EXCEPT ![t] = page[t] + 1]
           /\ auction_items' =
                  [auction_items EXCEPT ![t] = auction_items[t] \o data.auctions]
           /\ tps' = [tps EXCEPT ![t] = tps[t] \cup {total_pages}]
           /\ pc' = [pc EXCEPT ![t] =
                        IF page[t] + 1 <= total_pages THEN "fetch" ELSE "store"]
    /\ UNCHANGED <<now, upstreamVars, cacheVars, booted, armedAt, pendingTimers, retry_attempts,
                   slept, callVars, filterVars, response, loreVars>>

\* FetchPage with the budget set back to its initial value by a success.
FetchPageResetsBudget(t) ==
    /\ pc[t] = "fetch"
    /\ LET data == UpstreamResponse(page[t], totalPages)
           total_pages == data.totalPages
       IN  /\ more_pages' = [more_pages EXCEPT ![t] = page[t] + 1 < total_pages]
           /\ page' = [page EXCEPT ![t] = page[t] + 1]
           /\ auction_items' =
                  [auction_items EXCEPT ![t] = auction_items[t] \o data.auctions]
           /\ tps' = [tps EXCEPT ![t] = tps[t] \cup {total_pages}]
           /\ pc' = [pc EXCEPT ![t] =
                        IF page[t] + 1 < total_pages THEN "fetch" ELSE "store"]
    /\ retry_attempts' = [retry_attempts EXCEPT ![t] = RetryBudget]
    /\ UNCHANGED <<now, upstreamVars, cacheVars, booted, armedAt, pendingTimers, slept,
                   callVars, filterVars, response, loreVars>>

\* Lines 33-52: the request succeeds and every entry is well formed.  The loop
\* goes on while more_pages; otherwise line 64 returns.
FetchPage(t) ==
    /\ pc[t] = "fetch"
    /\ LET data == UpstreamResponse(page[t], totalPages)
           total_pages == data.totalPages
       IN  /\ more_pages' = [more_pages EXCEPT ![t] = page[t] + 1 < total_pages]
           /\ page' = [page EXCEPT ![t] = page[t] + 1]
           /\ auction_items' =
                  [auction_items EXCEPT ![t] = auction_items[t] \o data.auctions]
           /\ tps' = [tps EXCEPT ![t] = tps[t] \cup {total_pages}]
           /\ pc' = [pc EXCEPT ![t] =
                        IF page[t] + 1 < total_pages THEN "fetch" ELSE "store"]
    /\ UNCHANGED <<now, upstreamVars, cacheVars, booted, armedAt, pendingTimers, retry_attempts,
                   slept, callVars, filterVars, response, loreVars>>

\* FetchFails with the page advanced by the failure.
FetchFailsSkipsPage(t) ==
    /\ pc[t] = "fetch"
    /\ retry_attempts' = [retry_attempts EXCEPT ![t] = retry_attempts[t] - 1]
    /\ page' = [page EXCEPT ![t] = page[t] + 1]
    /\ slept' = [slept EXCEPT ![t] =
                    IF retry_attempts[t] - 1 > 0 THEN slept[t] + BackoffSeconds
                    ELSE slept[t]]
    /\ pc' = [pc EXCEPT ![t] =
                 IF retry_attempts[t] - 1 > 0 THEN "fetch" ELSE "store"]
    /\ UNCHANGED <<now, upstreamVars, cacheVars, booted, armedAt, pendingTimers, more_pages,
                   auction_items, tps, callVars, filterVars, response, loreVars>>

\* FetchFails with the exhausted budget raised to the caller, as a KeyError is.
FetchFailsRaisesOnExhaustion(t) ==
    /\ pc[t] = "fetch"
    /\ IF retry_attempts[t] - 1 > 0
       THEN /\ retry_attempts' = [retry_attempts EXCEPT ![t] = retry_attempts[t] - 1]
            /\ slept' = [slept EXCEPT ![t] = slept[t] + BackoffSeconds]
            /\ UNCHANGED <<pc, response, page, more_pages, auction_items, tps>>
       ELSE /\ retry_attempts' = [retry_attempts EXCEPT ![t] = 0]
            /\ UNCHANGED <<page, more_pages, auction_items, slept, tps>>
            /\ IF t = TimerThread
               THEN /\ pc' = [pc EXCEPT ![t] = IF booted THEN "dead" ELSE "crashed"]
                    /\ UNCHANGED response
               ELSE /\ pc' = [pc EXCEPT ![t] = "idle"]
                    /\ response' = [response EXCEPT ![t] = [status |-> 500, body |-> <<>>]]
    /\ UNCHANGED <<now, upstreamVars, cacheVars, booted, armedAt, pendingTimers, callVars, filterVars,
                   loreVars>>

\* FetchFails with the sleep and the retry, but the budget left as it is.
FetchFailsKeepsBudget(t) ==
    /\ pc[t] = "fetch"
    /\ slept' = [slept EXCEPT ![t] = slept[t] + BackoffSeconds]
    /\ UNCHANGED <<now, upstreamVars, cacheVars, pc, booted, armedAt, pendingTimers, page,
                   more_pages, retry_attempts, auction_items, tps, callVars, filterVars,
                   response, loreVars>>

\* Lines 54-62: requests.get, raise_for_status or json() raises a
\* RequestException.  With attempts left the thread sleeps 5 seconds and the
\* loop asks for the same page again; otherwise break, and line 64 returns.
\* The sleep is a delay of the thread: it is counted in slept, and the clock of
\* the model moves by Tick only.
FetchFails(t) ==
    /\ pc[t] = "fetch"
    /\ retry_attempts' = [retry_attempts EXCEPT ![t] = retry_attempts[t] - 1]
    /\ slept' = [slept EXCEPT ![t] =
                    IF retry_attempts[t] - 1 > 0 THEN slept[t] + BackoffSeconds
                    ELSE slept[t]]
    /\ pc' = [pc EXCEPT ![t] =
                 IF retry_attempts[t] - 1 > 0 THEN "fetch" ELSE "store"]
    /\ UNCHANGED <<now, upstreamVars, cacheVars, booted, armedAt, pendingTimers, page,
                   more_pages, auction_items, tps, callVars, filterVars, response,
                   loreVars>>

\* FetchRaises with the entries appended so far installed as the snapshot.
FetchRaisesStoresPartial(t) ==
    /\ pc[t] = "fetch"
    /\ cached_items' = auction_items[t]
    /\ itemsBy' = t
    /\ LeaveFetch(t)
    /\ IF t = TimerThread
       THEN /\ pc' = [pc EXCEPT ![t] = IF booted THEN "dead" ELSE "crashed"]
            /\ UNCHANGED response
       ELSE /\ pc' = [pc EXCEPT ![t] = "idle"]
            /\ response' = [response EXCEPT ![t] = [status |-> 500, body |-> <<>>]]
    /\ UNCHANGED <<now, upstreamVars, last_fetched, stampBy, booted, armedAt, pendingTimers,
                   filterVars, loreVars>>

\* Lines 36-52 on a payload that lacks a field: data['totalPages'] or a field
\* of an entry raises KeyError, which no except clause catches.  The error
\* leaves get_auction_items (its frame and the entries appended so far are
\* gone) and refresh_data before line 88.  In a request it then leaves
\* filter_items and get_filtered_items, and Flask answers 500.  In
\* refresh_data_periodically it passes line 157: a Timer thread ends without
\* starting the next Timer, and the main thread (the first call, line 159) ends
\* the process before app.run.
FetchRaises(t) ==
    /\ pc[t] = "fetch"
    /\ LeaveFetch(t)
    /\ IF t = TimerThread
       THEN /\ pc' = [pc EXCEPT ![t] = IF booted THEN "dead" ELSE "crashed"]
            /\ UNCHANGED response
       ELSE /\ pc' = [pc EXCEPT ![t] = "idle"]
            /\ response' = [response EXCEPT ![t] = [status |-> 500, body |-> <<>>]]
    /\ UNCHANGED <<now, upstreamVars, cacheVars, booted, armedAt, pendingTimers, filterVars,
                   loreVars>>

\* ------------------------------------------------------------------------
\* ArmorFilterService.refresh_data
\* ------------------------------------------------------------------------

\* StoreItems with a guard that keeps the held list when nothing was fetched.
StoreItemsKeepsOnFailure(t) ==
    /\ pc[t] = "store"
    /\ cached_items' =
           IF auction_items[t] = <<>> THEN cached_items ELSE auction_items[t]
    /\ itemsBy' = IF auction_items[t] = <<>> THEN itemsBy ELSE t
    /\ inFlight' = Without(inFlight, t)
    /\ overtaken' = (overtaken \cup Before(inFlight, t)) \ {t}
    /\ pc' = [pc EXCEPT ![t] = "stamp"]
    /\ UNCHANGED <<now, upstreamVars, last_fetched, stampBy, booted, armedAt, pendingTimers, localVars,
                   filterVars, response, loreVars>>

\* Line 88: self.cached_items = <the list get_auction_items returned>.  The
\* calls that started before this one and have not stored yet are overtaken.
StoreItems(t) ==
    /\ pc[t] = "store"
    /\ cached_items' = auction_items[t]
    /\ itemsBy' = t
    /\ inFlight' = Without(inFlight, t)
    /\ overtaken' = (overtaken \cup Before(inFlight, t)) \ {t}
    /\ pc' = [pc EXCEPT ![t] = "stamp"]
    /\ UNCHANGED <<now, upstreamVars, last_fetched, stampBy, booted, armedAt, pendingTimers, localVars,
                   filterVars, response, loreVars>>

\* StampTime with last_fetched left as it is after a fetch that used up its
\* budget, so that the degraded snapshot stays stale.
StampTimeSkipsOnFailure(t) ==
    /\ pc[t] = "stamp"
    /\ last_fetched' = IF retry_attempts[t] = 0 THEN last_fetched ELSE now
    /\ stampBy' = IF retry_attempts[t] = 0 THEN stampBy ELSE t
    /\ pc' = [pc EXCEPT ![t] = IF t = TimerThread THEN "arm" ELSE "armors"]
    /\ LeaveFetch(t)
    /\ UNCHANGED <<now, upstreamVars, cached_items, itemsBy, booted, armedAt, pendingTimers, filterVars,
                   response, loreVars>>

\* StampTime with the lazy refresh of a request arming a Timer of its own, as
\* if filter_items called refresh_data_periodically.
StampTimeArmsTimer(t) ==
    /\ pc[t] = "stamp"
    /\ last_fetched' = now
    /\ stampBy' = t
    /\ pendingTimers' = IF t \in Requests THEN pendingTimers + 1 ELSE pendingTimers
    /\ pc' = [pc EXCEPT ![t] = IF t = TimerThread THEN "arm" ELSE "armors"]
    /\ LeaveFetch(t)
    /\ UNCHANGED <<now, upstreamVars, cached_items, itemsBy, booted, armedAt, filterVars,
                   response, loreVars>>

\* Line 89: self.last_fetched = datetime.now(); refresh_data returns to
\* refresh_data_periodically or to filter_items.
StampTime(t) ==
    /\ pc[t] = "stamp"
    /\ last_fetched' = now
    /\ stampBy' = t
    /\ pc' = [pc EXCEPT ![t] = IF t = TimerThread THEN "arm" ELSE "armors"]
    /\ LeaveFetch(t)
    /\ UNCHANGED <<now, upstreamVars, cached_items, itemsBy, booted, armedAt, pendingTimers, filterVars,
                   response, loreVars>>

\* ------------------------------------------------------------------------
\* refresh_data_periodically and the Timer
\* ------------------------------------------------------------------------

\* Line 156: refresh_data_periodically calls refresh_data, which calls
\* get_auction_items.
TimerRun ==
    /\ pc[TimerThread] = "call"
    /\ pc' = [pc EXCEPT ![TimerThread] = "fetch"]
    /\ EnterFetch(TimerThread)
    /\ UNCHANGED <<now, upstreamVars, cacheVars, booted, armedAt, pendingTimers, filterVars,
                   response, loreVars>>

\* Line 157: Timer(300, refresh_data_periodically).start().  After the first
\* call the module goes on to app.run and requests are served.
TimerArm ==
    /\ pc[TimerThread] = "arm"
    /\ armedAt' = now
    /\ pendingTimers' = pendingTimers + 1
    /\ booted' = TRUE
    /\ pc' = [pc EXCEPT ![TimerThread] = "pending"]
    /\ UNCHANGED <<now, upstreamVars, cacheVars, fetchVars, filterVars, response,
                   loreVars>>

\* The Timer thread calls refresh_data_periodically once its interval has
\* passed.
TimerFire ==
    /\ pc[TimerThread] = "pending"
    /\ now >= armedAt + TimerInterval
    /\ pendingTimers' = pendingTimers - 1
    /\ pc' = [pc EXCEPT ![TimerThread] = "call"]
    /\ UNCHANGED <<now, upstreamVars, cacheVars, booted, armedAt, fetchVars,
                   filterVars, response, loreVars>>

\* ------------------------------------------------------------------------
\* GET /filtered_items: get_filtered_items and ArmorFilterService.filter_items
\* ------------------------------------------------------------------------

\* IsStale with >= for >.
IsStaleAtThreshold(clock, fetched) == clock - fetched >= StaleAfter

\* The staleness test of line 92.
IsStale(clock, fetched) == clock - fetched > StaleAfter

\* A request arrives and Flask calls get_filtered_items on a thread.
RequestArrives(r) ==
    /\ booted
    /\ pc[r] = "idle"
    /\ pc' = [pc EXCEPT ![r] = "check"]
    /\ response' = [response EXCEPT ![r] = NoResponse]
    /\ UNCHANGED <<now, upstreamVars, cacheVars, booted, armedAt, pendingTimers, fetchVars,
                   filterVars, loreVars>>

\* Thread t is inside refresh_data.
InRefresh(t) == pc[t] \in {"fetch", "store", "stamp"}

\* FilterCheck with a single-flight guard: a stale cache is not refreshed by the
\* request while another thread is refreshing it.
FilterCheckSingleFlight(r) ==
    /\ pc[r] = "check"
    /\ IF IsStale(now, last_fetched) /\ ~(\E u \in Threads \ {r} : InRefresh(u))
       THEN /\ pc' = [pc EXCEPT ![r] = "fetch"]
            /\ EnterFetch(r)
       ELSE /\ pc' = [pc EXCEPT ![r] = "armors"]
            /\ UNCHANGED fetchVars
    /\ UNCHANGED <<now, upstreamVars, cacheVars, booted, armedAt, pendingTimers, filterVars,
                   response, loreVars>>

\* FilterCheck with a refresh on every call, stale or not.
FilterCheckAlwaysRefreshes(r) ==
    /\ pc[r] = "check"
    /\ pc' = [pc EXCEPT ![r] = "fetch"]
    /\ EnterFetch(r)
    /\ UNCHANGED <<now, upstreamVars, cacheVars, booted, armedAt, pendingTimers, filterVars,
                   response, loreVars>>

\* Lines 92-93: when stale, refresh_data is called, which calls
\* get_auction_items.
FilterCheck(r) ==
    /\ pc[r] = "check"
    /\ IF IsStale(now, last_fetched)
       THEN /\ pc' = [pc EXCEPT ![r] = "fetch"]
            /\ EnterFetch(r)
       ELSE /\ pc' = [pc EXCEPT ![r] = "armors"]
            /\ UNCHANGED fetchVars
    /\ UNCHANGED <<now, upstreamVars, cacheVars, booted, armedAt, pendingTimers, filterVars,
                   response, loreVars>>

\* Lines 96-99.
FilterArmors(r) ==
    /\ pc[r] = "armors"
    /\ armors' = [armors EXCEPT ![r] = SelectSeq(cached_items, IsArmor)]
    /\ seen' = [seen EXCEPT ![r] = <<cached_items>>]
    /\ pc' = [pc EXCEPT ![r] = "equipments"]
    /\ UNCHANGED <<now, upstreamVars, cacheVars, booted, armedAt, pendingTimers, fetchVars,
                   equipments, shards, response, loreVars>>

\* Lines 101-103.
FilterEquipments(r) ==
    /\ pc[r] = "equipments"
    /\ equipments' = [equipments EXCEPT ![r] = SelectSeq(cached_items, IsEquipment)]
    /\ seen' = [seen EXCEPT ![r] = Append(seen[r], cached_items)]
    /\ pc' = [pc EXCEPT ![r] = "shards"]
    /\ UNCHANGED <<now, upstreamVars, cacheVars, booted, armedAt, pendingTimers, fetchVars,
                   armors, shards, response, loreVars>>

\* Lines 105-107.
FilterShards(r) ==
    /\ pc[r] = "shards"
    /\ shards' = [shards EXCEPT ![r] = SelectSeq(cached_items, IsShard)]
    /\ seen' = [seen EXCEPT ![r] = Append(seen[r], cached_items)]
    /\ pc' = [pc EXCEPT ![r] = "respond"]
    /\ UNCHANGED <<now, upstreamVars, cacheVars, booted, armedAt, pendingTimers, fetchVars,
                   armors, equipments, response, loreVars>>

\* Line 110: what filter_items returns.
FilterResult(r) == armors[r] \o equipments[r] \o shards[r]

\* Lines 166-175: one object per filtered item.
ResponseBody(filtered_items) ==
    [i \in 1..Len(filtered_items) |->
        [uuid |-> filtered_items[i].uuid,
         name |-> filtered_items[i].item_name,
         bin_status |-> filtered_items[i].bin_status,
         attributes |-> extract_attributes_from_lore(filtered_items[i].item_lore)]]

\* Lines 110 and 165-176: filter_items returns, the handler builds the body
\* and jsonify answers 200.
Respond(r) ==
    /\ pc[r] = "respond"
    /\ response' = [response EXCEPT ![r] =
                       [status |-> 200, body |-> ResponseBody(FilterResult(r))]]
    /\ pc' = [pc EXCEPT ![r] = "idle"]
    /\ armors' = [armors EXCEPT ![r] = <<>>]
    /\ equipments' = [equipments EXCEPT ![r] = <<>>]
    /\ shards' = [shards EXCEPT ![r] = <<>>]
    /\ seen' = [seen EXCEPT ![r] = <<>>]
    /\ UNCHANGED <<now, upstreamVars, cacheVars, booted, armedAt, pendingTimers, fetchVars,
                   loreVars>>

\* ------------------------------------------------------------------------
\* Specifications
\* ------------------------------------------------------------------------

Next ==
    \/ \E d \in TickSteps : Tick(d)
    \/ \E n \in 0..MaxPages : UpstreamChange(n)
    \/ TimerRun
    \/ TimerArm
    \/ TimerFire
    \/ \E t \in Threads :
        \/ FetchPage(t)
        \/ FetchFails(t)
        \/ FetchRaises(t)
        \/ StoreItems(t)
        \/ StampTime(t)
    \/ \E r \in Requests :
        \/ RequestArrives(r)
        \/ FilterCheck(r)
        \/ FilterArmors(r)
        \/ FilterEquipments(r)
        \/ FilterShards(r)
        \/ Respond(r)

\* The whole service: the timer, the request threads, the clock and the
\* upstream.
Spec == Init /\ [][Next]_vars

\* ------------------------------------------------------------------------
\* filter_items on a given snapshot
\* ------------------------------------------------------------------------

FilterNames ==
    { <<"C", "r", "i", "m", "s", "o", "n", " ", "H", "e", "l", "m", "e", "t">>,
      <<"c", "r", "i", "m", "s", "o", "n", " ", "h", "e", "l", "m", "e", "t">>,
      <<"I", "r", "o", "n", " ", "H", "e", "l", "m", "e", "t">>,
      <<"C", "r", "i", "m", "s", "o", "n", " ", "K", "e", "y">>,
      <<"M", "O", "L", "T", "E", "N", " ", "C", "L", "O", "A", "K">>,
      <<"A", "t", "t", "r", "i", "b", "u", "t", "e", " ", "S", "h", "a", "r", "d">>,
      <<"a", "t", "t", "r", "i", "b", "u", "t", "e", " ", "s", "h", "a", "r", "d">>,
      <<"M", "o", "l", "t", "e", "n", " ", "B", "e", "l", "t", " ", "A", "u", "r", "o", "r", "a", " ", "B", "o", "o", "t", "s", " ", "A", "t", "t", "r", "i", "b", "u", "t", "e", " ", "S", "h", "a", "r", "d">>,
      <<>>,
      None }

\* The snapshots of at most MaxSnapshotLen items, the uuid of an item being its
\* place in the listing.
Snapshots ==
    UNION { { [i \in 1..n |-> [uuid |-> i,
                               item_name |-> f[i][1],
                               item_lore |-> <<>>,
                               bin_status |-> f[i][2]]] :
              f \in [1..n -> FilterNames \X BOOLEAN] } :
            n \in 0..MaxSnapshotLen }

\* The service is up, the cache holds a snapshot that was fetched just now and
\* the next Timer is pending.
InitFilter ==
    /\ now = 0
    /\ totalPages = 0
    /\ changes = 0
    /\ last_fetched = 0
    /\ cached_items \in Snapshots
    /\ itemsBy = TimerThread
    /\ stampBy = TimerThread
    /\ pc = [t \in Threads |-> IF t = TimerThread THEN "pending" ELSE "idle"]
    /\ booted = TRUE
    /\ armedAt = 0
    /\ pendingTimers = 1
    /\ page = [t \in Threads |-> 0]
    /\ more_pages = [t \in Threads |-> TRUE]
    /\ retry_attempts = [t \in Threads |-> RetryBudget]
    /\ auction_items = [t \in Threads |-> <<>>]
    /\ slept = [t \in Threads |-> 0]
    /\ tps = [t \in Threads |-> {}]
    /\ inFlight = <<>>
    /\ overtaken = {}
    /\ armors = [r \in Requests |-> <<>>]
    /\ equipments = [r \in Requests |-> <<>>]
    /\ shards = [r \in Requests |-> <<>>]
    /\ seen = [r \in Requests |-> <<>>]
    /\ response = [r \in Requests |-> NoResponse]
    /\ lore = <<>>
    /\ attributes = <<>>
    /\ lorePc = "off"

NextFilter ==
    \E r \in Requests :
        \/ RequestArrives(r)
        \/ FilterCheck(r)
        \/ FilterArmors(r)
        \/ FilterEquipments(r)
        \/ FilterShards(r)
        \/ Respond(r)

\* Requests served from a fresh snapshot, with no refresh under way.
SpecFilter == InitFilter /\ [][NextFilter]_vars

\* ------------------------------------------------------------------------
\* extract_attributes_from_lore on a given lore text
\* ------------------------------------------------------------------------

LoreLines ==
    { <<"M", "a", "n", "a", " ", "P", "o", "o", "l", " ", "V", "I", "I">>,
      <<"M", "a", "n", "a", " ", "P", "o", "o", "l", " ", "V", "I", "I", " ", "M", "a", "n", "a", " ", "P", "o", "o", "l", " ", "I", "X">>,
      <<"#", "a", "L", "i", "f", "e", " ", "R", "e", "g", "e", "n", "e", "r", "a", "t", "i", "o", "n", " ", "#", "6", "V">>,
      <<"#", "7", "A", "t", "t", "r", "i", "b", "u", "t", "e", " ", "S", "h", "a", "r", "d">>,
      <<"M", "a", "n", "a", " ", "P", "o", "o", "l", " ", "7">>,
      <<"S", "p", "e", "e", "d", " ", "I", "I", " ", "A", "t", "t", "r", "i", "b", "u", "t", "e", " ", "S", "h", "a", "r", "d">>,
      <<>>,
      <<"M", "a", "n", "a", " ", "P", "o", "o", "l", " ", "7", " ", "S", "p", "e", "e", "d", " ", "X">>,
      <<"V", "e", "t", "e", "r", "a", "n", " ", "V", "x">>,
      <<"#", "#", "a", "a", "M", "a", "g", "i", "c", " ", "F", "i", "n", "d", " ", "I">> }

\* '\n'.join(lines)
RECURSIVE JoinLines(_)
JoinLines(lines) ==
    IF Len(lines) = 1 THEN lines[1]
    ELSE lines[1] \o <<NL>> \o JoinLines(Tail(lines))

\* The lore texts of 1 to MaxLoreLines lines.
Lores ==
    UNION { { JoinLines(f) : f \in [1..n -> LoreLines] } : n \in 1..MaxLoreLines }

InitLore ==
    /\ now = 0
    /\ totalPages = 0
    /\ changes = 0
    /\ last_fetched = DatetimeMin
    /\ cached_items = <<>>
    /\ itemsBy = Constructor
    /\ stampBy = Constructor
    /\ pc = [t \in Threads |-> IF t = TimerThread THEN "call" ELSE "idle"]
    /\ booted = FALSE
    /\ armedAt = 0
    /\ pendingTimers = 0
    /\ page = [t \in Threads |-> 0]
    /\ more_pages = [t \in Threads |-> TRUE]
    /\ retry_attempts = [t \in Threads |-> RetryBudget]
    /\ auction_items = [t \in Threads |-> <<>>]
    /\ slept = [t \in Threads |-> 0]
    /\ tps = [t \in Threads |-> {}]
    /\ inFlight = <<>>
    /\ overtaken = {}
    /\ armors = [r \in Requests |-> <<>>]
    /\ equipments = [r \in Requests |-> <<>>]
    /\ shards = [r \in Requests |-> <<>>]
    /\ seen = [r \in Requests |-> <<>>]
    /\ response = [r \in Requests |-> NoResponse]
    /\ lore \in Lores
    /\ attributes = <<>>
    /\ lorePc = "call"

\* One call of extract_attributes_from_lore(lore).
ExtractCall ==
    /\ lorePc = "call"
    /\ attributes' = extract_attributes_from_lore(lore)
    /\ lorePc' = "done"
    /\ UNCHANGED <<now, upstreamVars, cacheVars, pc, booted, armedAt, pendingTimers, fetchVars,
                   filterVars, response, lore>>

NextLore == ExtractCall

\* extract_attributes_from_lore called on a lore text.
SpecLore == InitLore /\ [][NextLore]_vars

\* ------------------------------------------------------------------------
\* Properties
\* ------------------------------------------------------------------------

\* C1: a filter_items result is computed from one snapshot: the three list
\* comprehensions of a call all read the same value of cached_items.
C1_ResultFromOneSnapshot ==
    \A r \in Requests :
        pc[r] = "respond" => seen[r][1] = seen[r][2] /\ seen[r][2] = seen[r][3]

\* A call of get_auction_items in which every request failed: the budget is
\* used up and no page was fetched.
FetchFailedEntirely(t) == retry_attempts[t] = 0 /\ page[t] = 0

\* C2, as claimed: a refresh whose fetch failed entirely leaves cached_items and
\* last_fetched as they were.
C2_FailedRefreshKeepsCache ==
    [][\A t \in Threads :
          (pc[t] \in {"store", "stamp"} /\ FetchFailedEntirely(t) /\ pc'[t] # pc[t])
              => (cached_items' = cached_items /\ last_fetched' = last_fetched)
      ]_vars

\* C2, amended: a refresh whose fetch failed entirely sets cached_items to the
\* empty list and last_fetched to the current time, whatever the cache held.
C2_FailedRefreshInstallsEmpty ==
    [][\A t \in Threads :
          /\ (pc[t] = "store" /\ FetchFailedEntirely(t) /\ pc'[t] = "stamp")
                 => cached_items' = <<>>
          /\ (pc[t] = "stamp" /\ FetchFailedEntirely(t) /\ pc'[t] # "stamp")
                 => last_fetched' = now
      ]_vars

\* C2, witness: the timer's fetch failed entirely and its empty list has
\* replaced a snapshot of which a request had read a non-empty value.
C2_Witness ==
    /\ pc[TimerThread] = "stamp"
    /\ FetchFailedEntirely(TimerThread)
    /\ cached_items = <<>>
    /\ \E r \in Requests : seen[r] # <<>> /\ seen[r][1] # <<>>

\* C3: the staleness test is true while the cache was never fetched, false
\* right after refresh_data has returned, and filter_items refreshes exactly
\* when strictly more than 5 minutes have passed since last_fetched.
C3_Staleness ==
    /\ [](last_fetched = DatetimeMin => IsStale(now, last_fetched))
    /\ [][\A t \in Threads :
             /\ (pc[t] = "stamp" /\ pc'[t] # "stamp")
                    => (last_fetched' = now' /\ ~IsStale(now', last_fetched'))
             /\ (pc[t] = "check" /\ pc'[t] # "check")
                    => (pc'[t] = "fetch" <=> now > last_fetched + 5 * 60)
        ]_vars

\* C3, witness: a request goes on to filter without refreshing, exactly 5
\* minutes after the snapshot was taken.
C3_Witness ==
    \E r \in Requests : pc[r] = "armors" /\ now = last_fetched + 5 * 60

\* The entries of pages 0 .. n-1 of the listing, in page order.
RECURSIVE ListingPrefix(_)
ListingPrefix(n) ==
    IF n <= 0 THEN <<>>
    ELSE ListingPrefix(n - 1)
         \o [k \in 1..PageSize(n - 1) |-> UpstreamEntry(n - 1, k)]

\* The sum of the entry counts of pages 0 .. n-1.
RECURSIVE CountPrefix(_)
CountPrefix(n) == IF n <= 0 THEN 0 ELSE CountPrefix(n - 1) + PageSize(n - 1)

\* C4: when the upstream reports one totalPages = N throughout a call and the
\* budget is not used up, get_auction_items returns exactly the entries of
\* pages 0 .. N-1, each once and in order.
C4_ReturnsEveryPageOnce ==
    \A t \in Threads : \A N \in 0..MaxPages :
        (pc[t] = "store" /\ retry_attempts[t] > 0 /\ tps[t] = {N})
            => /\ auction_items[t] = ListingPrefix(N)
               /\ Len(auction_items[t]) = CountPrefix(N)
               /\ \A i, j \in 1..Len(auction_items[t]) :
                      i < j => auction_items[t][i].uuid < auction_items[t][j].uuid

\* C4, witness: a call returns both pages of a two-page listing after some of
\* its requests had failed.
C4_Witness ==
    \E t \in Threads :
        /\ pc[t] = "store"
        /\ retry_attempts[t] \in 1..(RetryBudget - 1)
        /\ tps[t] = {2}
        /\ Len(auction_items[t]) = 3

\* C5: when the budget is used up, get_auction_items returns (it does not
\* raise) the entries of the pages fetched before: entries of pages below the
\* failing page only, in order, and under a constant totalPages exactly the
\* prefix of the listing before the failing page.
C5_ExhaustionReturnsPrefix ==
    \A t \in Threads :
        retry_attempts[t] = 0
            => /\ pc[t] \in {"store", "stamp"}
               /\ \A i \in 1..Len(auction_items[t]) :
                      auction_items[t][i].uuid < 10 * page[t]
               /\ \A i, j \in 1..Len(auction_items[t]) :
                      i < j => auction_items[t][i].uuid < auction_items[t][j].uuid
               /\ Cardinality(tps[t]) <= 1
                      => auction_items[t] = ListingPrefix(page[t])

\* C5, witness: the budget runs out on the second page and the call returns the
\* entries of the first.
C5_Witness ==
    \E t \in Threads :
        /\ pc[t] = "store"
        /\ retry_attempts[t] = 0
        /\ page[t] = 1
        /\ auction_items[t] # <<>>

\* C6: the periodic refresh stays alive: whatever the outcome of the fetch of a
\* timer-triggered refresh_data_periodically, the next Timer is armed, so the
\* chain of timers never ends while the service runs.
C6_TimerStaysAlive == booted => pc[TimerThread] # "dead"

\* C7: GET /filtered_items always completes with 200, whatever the upstream
\* did during the refresh the request triggered.
C7_AlwaysAnswers200 == \A r \in Requests : response[r].status \in {0, 200}

\* The categories as C8 words them: a non-empty name, bin_status true, and the
\* words of the category in the name.
C8_Listed(item) ==
    /\ item.item_name # None
    /\ Len(item.item_name) > 0
    /\ item.bin_status

C8_Armor(item) ==
    /\ C8_Listed(item)
    /\ matches_armor_name(item.item_name)
    /\ matches_armor_piece(item.item_name)

C8_Equipment(item) ==
    /\ C8_Listed(item)
    /\ matches_equipment_name(item.item_name)

C8_Shard(item) ==
    /\ C8_Listed(item)
    /\ shard_in_name(item.item_name)

C8_Expected ==
    SelectSeq(cached_items, C8_Armor)
        \o SelectSeq(cached_items, C8_Equipment)
        \o SelectSeq(cached_items, C8_Shard)

C8_Categories(item) ==
    (IF C8_Armor(item) THEN 1 ELSE 0)
        + (IF C8_Equipment(item) THEN 1 ELSE 0)
        + (IF C8_Shard(item) THEN 1 ELSE 0)

\* C8: the answer lists the armors, then the equipments, then the shards of the
\* snapshot, each part in cache order; no item with bin_status false or without
\* a name is listed, and an item of k categories is listed k times.
C8_FilterIsConcatenation ==
    \A r \in Requests :
        response[r].status = 200
            => LET body == response[r].body
               IN  /\ [i \in 1..Len(body) |-> body[i].uuid]
                          = [i \in 1..Len(C8_Expected) |-> C8_Expected[i].uuid]
                   /\ \A i \in 1..Len(body) :
                          /\ body[i].bin_status = TRUE
                          /\ body[i].name \notin {<<>>, None}
                   /\ \A j \in 1..Len(cached_items) :
                          Cardinality({i \in 1..Len(body) :
                                          body[i].uuid = cached_items[j].uuid})
                              = C8_Categories(cached_items[j])

\* C8, witness: the one item of a snapshot is listed three times.
C8_Witness ==
    \E r \in Requests :
        /\ response[r].status = 200
        /\ Len(cached_items) = 1
        /\ Len(response[r].body) = 3

\* The lines of the decoration-stripped lore.
C9_Lines == SplitLines(StripCodes(lore))

\* Attribute k, a space and a roman character stand at position i of line.
C9_AttributeAt(line, i, k) ==
    LET n == Len(valid_armor_attributes[k])
    IN  /\ i + n + 1 <= Len(line)
        /\ \A c \in 1..n : line[i + c - 1] = valid_armor_attributes[k][c]
        /\ line[i + n] = " "
        /\ line[i + n + 1] \in RomanChars

C9_HasAttribute(line) ==
    \E i \in 1..Len(line) : \E k \in 1..Len(valid_armor_attributes) :
        C9_AttributeAt(line, i, k)

C9_HasShard(line) ==
    \E i \in 1..Len(line) :
        /\ i + Len(AttributeShard) - 1 <= Len(line)
        /\ \A c \in 1..Len(AttributeShard) : line[i + c - 1] = AttributeShard[c]

\* Entry e is the leftmost attribute of line with all its roman numerals.
C9_IsFirstMatch(line, e) ==
    \E i \in 1..Len(line) : \E k \in 1..Len(valid_armor_attributes) :
        /\ C9_AttributeAt(line, i, k)
        /\ \A j \in 1..(i - 1) : \A k2 \in 1..Len(valid_armor_attributes) :
               ~C9_AttributeAt(line, j, k2)
        /\ e.name = valid_armor_attributes[k]
        /\ LET from == i + Len(e.name) + 1
               to == from + Len(e.level) - 1
           IN  /\ Len(e.level) >= 1
               /\ to <= Len(line)
               /\ \A c \in 1..Len(e.level) :
                      e.level[c] = line[from + c - 1] /\ e.level[c] \in RomanChars
               /\ (to = Len(line) \/ line[to + 1] \notin RomanChars)

\* The number of entries line contributes.
C9_Entries(line) ==
    (IF C9_HasAttribute(line) THEN 1 ELSE 0) + (IF C9_HasShard(line) THEN 1 ELSE 0)

\* The number of entries the lines before line k contribute.
RECURSIVE C9_Before(_, _)
C9_Before(lines, k) ==
    IF k <= 1 THEN 0 ELSE C9_Before(lines, k - 1) + C9_Entries(lines[k - 1])

\* C9: line by line, in order, the output holds at most one attribute entry
\* (the leftmost match of the line) followed by at most one shard entry; a line
\* without an attribute name followed by a roman numeral gives no attribute
\* entry; the output has at most 2 entries per line.
C9_ExtractPerLine ==
    lorePc = "done"
        => /\ Len(attributes) = C9_Before(C9_Lines, Len(C9_Lines) + 1)
           /\ Len(attributes) <= 2 * Len(C9_Lines)
           /\ \A k \in 1..Len(C9_Lines) :
                  LET line == C9_Lines[k]
                      at == C9_Before(C9_Lines, k)
                  IN  /\ C9_HasAttribute(line)
                          => C9_IsFirstMatch(line, attributes[at + 1])
                      /\ C9_HasShard(line)
                          => attributes[at + C9_Entries(line)]
                                 = [name |-> AttributeShard, level |-> NotApplicable]

\* C9, witness: a single line with two attribute matches has given one entry.
C9_Witness ==
    /\ lorePc = "done"
    /\ Len(C9_Lines) = 1
    /\ \E i, j \in 1..Len(C9_Lines[1]) :
           /\ i < j
           /\ \E k \in 1..Len(valid_armor_attributes) : C9_AttributeAt(C9_Lines[1], i, k)
           /\ \E k \in 1..Len(valid_armor_attributes) : C9_AttributeAt(C9_Lines[1], j, k)
    /\ Len(attributes) = 1

\* The uuids of a list of items.
Uuids(items) == {items[i].uuid : i \in 1..Len(items)}

\* C10: two names that differ in letter case only fall into the same
\* categories of filter_items.
C10_CaseInsensitive ==
    \A r \in Requests :
        pc[r] = "respond"
            => \A i, j \in 1..Len(cached_items) :
                   LET a == cached_items[i]
                       b == cached_items[j]
                   IN  (/\ Truthy(a.item_name)
                        /\ Truthy(b.item_name)
                        /\ Lower(a.item_name) = Lower(b.item_name)
                        /\ a.bin_status = b.bin_status)
                           => /\ a.uuid \in Uuids(armors[r]) <=> b.uuid \in Uuids(armors[r])
                              /\ a.uuid \in Uuids(equipments[r]) <=> b.uuid \in Uuids(equipments[r])
                              /\ a.uuid \in Uuids(shards[r]) <=> b.uuid \in Uuids(shards[r])

\* A step in which the request of thread t for page[t] fails.
RequestFailed(t) ==
    pc[t] = "fetch" /\ retry_attempts'[t] = retry_attempts[t] - 1

\* A step in which the request of thread t for page[t] succeeds and the
\* response is read to its end.
RequestSucceeded(t) ==
    /\ pc[t] = "fetch"
    /\ pc'[t] \in {"fetch", "store"}
    /\ retry_attempts'[t] = retry_attempts[t]
    /\ <<page[t], auction_items[t], tps[t]>>' # <<page[t], auction_items[t], tps[t]>>

\* C11: a call of get_auction_items asks for page 0 first; after a failed
\* request it asks for the same page, after a successful one for the next
\* page; it stops at the first success of a page p with p + 1 >= totalPages, so
\* page 0 is asked for even when totalPages is 0, and a call that returns with
\* budget left has fetched pages 0 .. page - 1, at least page 0 and no more
\* pages than some response reported.
C11_PagesInOrder ==
    /\ [][\A t \in Threads :
             /\ (pc[t] # "fetch" /\ pc'[t] = "fetch") => page'[t] = 0
             /\ RequestFailed(t) => page'[t] = page[t]
             /\ RequestSucceeded(t)
                    => /\ page'[t] = page[t] + 1
                       /\ pc'[t] = "store" <=> page[t] + 1 >= totalPages
        ]_vars
    /\ [](\A t \in Threads :
             (pc[t] \in {"store", "stamp"} /\ retry_attempts[t] > 0)
                 => (page[t] >= 1 /\ \E n \in tps[t] : page[t] <= n \/ page[t] = 1))

\* C11, witness: the listing has no pages, and the call has asked for page 0,
\* more than once since a request failed, and stopped at its first success.
C11_Witness ==
    \E t \in Threads :
        /\ pc[t] = "store"
        /\ tps[t] = {0}
        /\ page[t] = 1
        /\ retry_attempts[t] \in 1..(RetryBudget - 1)

\* The number of requests that have failed in the call thread t is in.
Failures(t) == RetryBudget - retry_attempts[t]

\* C12: the budget of a call is one counter for all pages and a success never
\* raises it: a call sees at most 5 failed requests, the 5th ends the fetch, a
\* sleep of 5 seconds follows every failure but the 5th, and the sleeps of a
\* call add up to at most 25 seconds.
C12_OneBudgetPerCall ==
    /\ [](\A t \in Threads :
             /\ Failures(t) \in 0..5
             /\ Failures(t) = 5 => pc[t] \in {"store", "stamp"}
             /\ slept[t] = 5 * (IF Failures(t) = 5 THEN 4 ELSE Failures(t))
             /\ slept[t] <= 5 * 5)
    /\ [][\A t \in Threads :
             (pc[t] = "fetch" /\ pc'[t] \in {"fetch", "store"})
                 => /\ retry_attempts'[t] <= retry_attempts[t]
                    /\ page'[t] # page[t] => retry_attempts'[t] = retry_attempts[t]
                    /\ RequestFailed(t)
                           => /\ pc'[t] = "store" <=> Failures(t) = 4
                              /\ slept'[t] - slept[t]
                                     = IF Failures(t) = 4 THEN 0 ELSE 5
        ]_vars

\* C12, witness: a call that had fetched page 0 has met its 5th failure and
\* returns after 4 sleeps.
C12_Witness ==
    \E t \in Threads :
        /\ pc[t] = "store"
        /\ Failures(t) = 5
        /\ page[t] = 1
        /\ slept[t] = 20

\* The largest number of successful requests of a call when no response reports
\* more than n pages.
MostPages(n) == IF n >= 1 THEN n ELSE 1

\* The loop iterations a call in thread t can still make: the pages it may
\* still fetch plus the failures it may still meet.
IterationsLeft(t) == (MostPages(MaxPages) - page[t]) + retry_attempts[t]

\* The locals of get_auction_items in thread t.
FetchLocals(t) ==
    <<page[t], more_pages[t], retry_attempts[t], auction_items[t], slept[t], tps[t]>>

\* C13: every iteration of the loop of get_auction_items either advances page
\* or takes one from the budget, so with totalPages never above N a call makes
\* at most max(N, 1) successful and at most 5 failed requests, and then ends.
C13_FetchTerminates ==
    /\ [](\A t \in Threads :
             /\ page[t] \in 0..MostPages(MaxPages)
             /\ retry_attempts[t] \in 0..5
             /\ pc[t] = "fetch"
                    => (page[t] < MostPages(MaxPages) /\ retry_attempts[t] > 0))
    /\ [][\A t \in Threads :
             (pc[t] = "fetch" /\ pc'[t] = "fetch" /\ FetchLocals(t)' # FetchLocals(t))
                 => (/\ IterationsLeft(t)' = IterationsLeft(t) - 1
                     /\ \/ page'[t] = page[t] + 1
                        \/ retry_attempts'[t] = retry_attempts[t] - 1)
        ]_vars

\* The scheduler lets a thread that is inside get_auction_items take its next
\* step: its request succeeds, fails or brings a malformed payload.
SpecFetchFair ==
    Spec /\ \A t \in Threads :
                WF_vars(FetchPage(t) \/ FetchFails(t) \/ FetchRaises(t))

\* C13, the end of the call: a thread inside get_auction_items leaves it.
C13_FetchEnds ==
    \A t \in Threads : (pc[t] = "fetch") ~> (pc[t] # "fetch")

\* C13, witness: a call on a listing of MaxPages pages returns after as many
\* successes as there are pages and 4 failures.
C13_Witness ==
    \E t \in Threads :
        /\ pc[t] = "store"
        /\ page[t] = MostPages(MaxPages)
        /\ retry_attempts[t] = 1

\* C14: refreshes are not serialized.  A request that finds the cache stale
\* while another thread is inside refresh_data starts its own refresh, and the
\* timer's refresh starts while a request is inside refresh_data; neither
\* waits for the other nor ends it.
C14_RefreshesNotSerialized ==
    [][\A t \in Threads : \A u \in Threads \ {t} :
          /\ (/\ InRefresh(u)
              /\ pc[t] = "check"
              /\ now - last_fetched > 5 * 60
              /\ pc'[t] # "check")
                 => (pc'[t] = "fetch" /\ InRefresh(u)')
          /\ (/\ InRefresh(u)
              /\ pc[t] = "call"
              /\ pc'[t] # "call")
                 => (pc'[t] = "fetch" /\ InRefresh(u)')
      ]_vars

\* C14, witness: the timer's refresh_data and a request's refresh_data are in
\* progress at once, and each has fetched a page of its own.
C14_Witness ==
    \E r \in Requests :
        /\ pc[TimerThread] = "fetch"
        /\ pc[r] = "fetch"
        /\ page[TimerThread] >= 1
        /\ page[r] >= 1

\* cached_items and last_fetched were written by one and the same call of
\* refresh_data, or both by the constructor.  A thread that stands between
\* lines 88 and 89 has written cached_items in its current call and
\* last_fetched, if at all, in an earlier one.
WrittenByOneRefresh ==
    /\ itemsBy = stampBy
    /\ itemsBy \in Threads => pc[itemsBy] # "stamp"

\* C15: once requests are served, cached_items and last_fetched are at every
\* moment the items and the timestamp written by one and the same call of
\* refresh_data.
C15_PairFromOneRefresh == booted => WrittenByOneRefresh

\* C16: refresh_data installs whatever get_auction_items returned, a partial or
\* empty list of a fetch that used up its budget included, and stamps it with
\* the current time; the cache is then not stale, and a filter_items call
\* within the next 5 minutes goes on to filter it and fetches nothing.
C16_DegradedSnapshotIsFresh ==
    [][\A t \in Threads :
          /\ (pc[t] = "store" /\ pc'[t] # "store")
                 => (pc'[t] = "stamp" /\ cached_items' = auction_items[t])
          /\ (pc[t] = "stamp" /\ pc'[t] # "stamp")
                 => /\ last_fetched' = now
                    /\ now' - last_fetched' <= 5 * 60
                    /\ cached_items' = cached_items
                    /\ t \in Requests => pc'[t] = "armors"
          /\ (pc[t] = "check" /\ pc'[t] # "check" /\ now - last_fetched <= 5 * 60)
                 => (pc'[t] = "armors" /\ FetchLocals(t)' = FetchLocals(t))
      ]_vars

\* C16, witness: every request of the timer's first refresh failed although the
\* listing has pages; 5 minutes later a request filters the empty snapshot
\* without a fetch of its own.
C16_Witness ==
    \E r \in Requests :
        /\ pc[r] = "armors"
        /\ totalPages > 0
        /\ changes = 0
        /\ cached_items = <<>>
        /\ itemsBy = TimerThread
        /\ stampBy = TimerThread
        /\ last_fetched = 0
        /\ now = 5 * 60

\* Request r is inside filter_items or the handler, outside refresh_data.
Reading(r) == pc[r] \in {"check", "armors", "equipments", "shards", "respond"}

\* C17: a filter_items call starts a fetch exactly when its staleness test is
\* true at that moment; outside refresh_data its steps ask the upstream
\* nothing and leave cached_items and last_fetched as they are.
C17_ReadFetchesOnlyWhenStale ==
    [][\A r \in Requests :
          /\ (pc[r] = "check" /\ pc'[r] # "check")
                 => /\ pc'[r] = "fetch" <=> now - last_fetched > 5 * 60
                    /\ pc'[r] = "armors" <=> now - last_fetched <= 5 * 60
          /\ (Reading(r) /\ pc'[r] # pc[r])
                 => /\ cached_items' = cached_items
                    /\ last_fetched' = last_fetched
                    /\ pc[r] # "check" => (Reading(r)' \/ pc'[r] = "idle")
                    /\ pc'[r] # "fetch" => FetchLocals(r)' = FetchLocals(r)
      ]_vars

\* C17, witness: a request that found the snapshot exactly 5 minutes old has
\* built its three lists and is about to answer, and the cache is as the timer
\* left it at the start.
C17_Witness ==
    \E r \in Requests :
        /\ pc[r] = "respond"
        /\ now - last_fetched = 5 * 60
        /\ stampBy = TimerThread
        /\ itemsBy = TimerThread
        /\ seen[r] = <<cached_items, cached_items, cached_items>>

\* A step in which get_auction_items of thread t raises: the thread leaves the
\* loop without reaching line 64.
FetchRaised(t) == pc[t] = "fetch" /\ pc'[t] \notin {"fetch", "store"}

\* C18: when get_auction_items raises, refresh_data ends before line 88:
\* cached_items and last_fetched stay as they were, the staleness test gives
\* what it gave, and the entries appended so far are gone with the call.
C18_RaiseLeavesCache ==
    [][\A t \in Threads :
          FetchRaised(t)
              => /\ cached_items' = cached_items
                 /\ last_fetched' = last_fetched
                 /\ (now' - last_fetched' > 5 * 60) <=> (now - last_fetched > 5 * 60)
                 /\ auction_items'[t] = <<>>
                 /\ ~InRefresh(t)'
      ]_vars

\* C18, witness: the lazy refresh of a request has raised and the request was
\* answered 500; the cache still holds the timer's non-empty snapshot and is
\* as stale as the request found it.
C18_Witness ==
    \E r \in Requests :
        /\ pc[r] = "idle"
        /\ response[r].status = 500
        /\ cached_items # <<>>
        /\ itemsBy = TimerThread
        /\ stampBy = TimerThread
        /\ now - last_fetched > 5 * 60

\* The executions of refresh_data_periodically that are under way: the one of
\* the main thread or of a Timer thread that has not returned or raised.
RunningTimers ==
    IF pc[TimerThread] \in {"call", "fetch", "store", "stamp", "arm"} THEN 1 ELSE 0

\* C19: at most one periodic refresh is pending or running.  A Timer is
\* pending exactly while the chain waits for its next turn, none is pending
\* while refresh_data_periodically runs, and the refreshes of requests start
\* none.
C19_OneTimer ==
    /\ pendingTimers \in {0, 1}
    /\ pendingTimers + RunningTimers <= 1
    /\ pendingTimers = 1 <=> pc[TimerThread] = "pending"

\* C19, witness: the second Timer of the chain is pending, and meanwhile a
\* request has refreshed the cache by itself.
C19_Witness ==
    /\ pendingTimers = 1
    /\ RunningTimers = 0
    /\ armedAt >= TimerInterval
    /\ \E r \in Requests : itemsBy = r /\ ~InRefresh(r)

\* C20: a refresh never replaces the held snapshot by the result of a fetch
\* that started before the fetch whose result it replaces.
C20_NoOlderDataOverNewer ==
    [][\A t \in Threads :
          (pc[t] = "store" /\ pc'[t] = "stamp") => t \notin overtaken
      ]_vars

====
